---- MODULE Spec2Model ----
(***************************************************************************)
(* Real-time stock dashboard: StockCard (per-symbol polling, alerts),      *)
(* StockDashboard (card registry, portfolio totals, alert list) and the    *)
(* Utils helpers (market status, rate limiter, retrying request, expiring  *)
(* local storage).                                                         *)
(***************************************************************************)
EXTENDS Integers, Sequences, FiniteSets, TLC

\* ------------------------------------------------------------------ bounds
MaxCardId == 2          \* StockCard instances ever constructed in one run
MaxInFlight == 2        \* cap on the fetches one card may have outstanding
MaxRemoveTimers == 1    \* cap on pending 300 ms removal timeouts per card
MaxIndexRuns == 2       \* cap on updateMarketIndices() calls in progress
MaxDefaultRuns == 2     \* cap on addDefaultStocks() calls in progress

Symbols == {"AAPL", "MSFT"}
NoSym == ""
CardIds == 1..MaxCardId
NoCard == 0

\* A quote is <<regularMarketPrice, regularMarketPreviousClose>>; Null is
\* the JavaScript null a card holds before its first successful load.
Null == <<>>
CardQuotes == {<<10, 9>>, <<20, 22>>}
FailKinds == {"http", "payload", "throw"}

\* ------------------------------------------------------------------- state
VARIABLES
    nextId,         \* number of StockCard objects constructed so far, plus 1
    cardSym,        \* StockCard.symbol
    isLoading,      \* StockCard.isLoading
    hasError,       \* StockCard.hasError
    fetching,       \* fetch() promises of the card not yet settled
    data,           \* StockCard.data
    previousData,   \* StockCard.previousData
    refreshTimer,   \* StockCard.refreshTimer holds an interval id
    cardIntervals,  \* setInterval timers of the card not cleared yet
    inDom,          \* StockCard.element is attached to the page
    removeTimers,   \* pending setTimeout(..., 300) callbacks of remove()
    stockCards,     \* StockDashboard.stockCards: symbol -> card
    watchlist,      \* StockDashboard.watchlist
    hidden,         \* document.hidden
    updateInterval, \* StockDashboard.updateInterval holds an interval id
    globalIntervals, \* setInterval timers of the dashboard not cleared yet
    options,        \* StockDashboard.options
    defaultRuns,    \* per addDefaultStocks() call suspended at an await, the
                    \* position in defaultSymbols it resumes at
    indexRuns,      \* per updateMarketIndices() call in progress, the index
                    \* symbols it has still to fetch (the first is in flight)
    due,            \* ticks until the card's setInterval callback runs next
    sinceFail,      \* ticks since the card's latest failed load settled
    failCount,      \* the card's consecutive failed loads (observer)
    alerts,         \* localStorage['stockAlerts'], parsed: symbol -> alert
    listAlerts,     \* the `alerts` object captured by the rendered alert list
    listButtons,    \* symbols that have a remove button in the alert list
    feed,           \* prices the data source will serve next, per symbol
    seen,           \* prices loaded since the symbol's latest setAlert
    fired,          \* prices at which the alert fired since that setAlert
    statCards,      \* card.getData() of the registered cards, in Map order
    stats,          \* the totals computed by the latest updateStats()
    now,            \* Date.now(), in ticks
    store,          \* localStorage: key -> parsed item
    lastGet,        \* the latest getLocalStorage call and what it returned
    expiryArg,      \* per key, the expiry argument of its latest stored write
    soundEnabled,   \* STOCK_CONFIG.SOUND.ENABLED
    throttled,      \* Utils.throttle: limit, the closure's lastRan and
                    \* lastFunc, and the times func was invoked at
    limiter,        \* createRateLimiter's maxRequests, timeWindow, requests
    allowedAt,      \* per time, the isAllowed() calls that returned true
    mkIn,           \* getMarketStatus: market wall clock and browser offset
    mkOut,          \* getMarketStatus: the object returned
    attempts,       \* makeRequest: attempts
    promise,        \* makeRequest: state of the returned promise
    inflight,       \* makeRequest: requests sent and not yet answered
    retryTimers,    \* makeRequest: ticks left of each pending setTimeout
    outcome,        \* makeRequest: how each request ended
    waited          \* makeRequest: the timeout each request was started by

cardVars == <<nextId, cardSym, isLoading, hasError, fetching, data,
              previousData, refreshTimer, cardIntervals, inDom, removeTimers>>
dashVars == <<stockCards, watchlist, hidden, updateInterval, globalIntervals,
              options, defaultRuns>>

pollVars == <<due, sinceFail, failCount>>
indexVars == <<indexRuns>>

alertVars == <<alerts, listAlerts, listButtons, feed, seen, fired>>
statVars == <<statCards, stats>>

storeVars == <<store, lastGet>>
putVars == <<expiryArg>>
cfgVars == <<soundEnabled>>
thrVars == <<throttled>>
limVars == <<limiter, allowedAt>>
mktVars == <<mkIn, mkOut>>
reqVars == <<attempts, promise, inflight, retryTimers, outcome, waited>>
utilVars == <<now, storeVars, putVars, cfgVars, thrVars, limVars, mktVars,
              reqVars>>
appVars == <<cardVars, dashVars, pollVars, alertVars, statVars, indexVars>>

vars == <<appVars, utilVars>>

\* Everything but the cards and the dashboard registry.
offCard == <<pollVars, alertVars, statVars, indexVars, utilVars>>
\* Everything but the cards, the registry and the polling clock.
offPoll == <<alertVars, statVars, indexVars, utilVars>>

created(c) == c < nextId

\* ---------------------------------------------------------------- StockCard

\* loadData, line 186: the early return while a load is pending.
loadDataSkips_never(c) == FALSE
loadDataSkips(c) == isLoading[c]

\* loadData up to its first await: setLoading(true), setError(false), fetch().
loadData(c) ==
    IF loadDataSkips(c)
    THEN UNCHANGED <<isLoading, hasError, fetching>>
    ELSE /\ fetching[c] < MaxInFlight
         /\ isLoading' = [isLoading EXCEPT ![c] = TRUE]
         /\ hasError' = [hasError EXCEPT ![c] = FALSE]
         /\ fetching' = [fetching EXCEPT ![c] = @ + 1]

\* loadData after the awaits: a 2xx reply with success=true carrying quote q.
loadSucceeds(c, q) ==
    /\ created(c) /\ fetching[c] > 0
    /\ fetching' = [fetching EXCEPT ![c] = @ - 1]
    /\ previousData' = [previousData EXCEPT ![c] = data[c]]
    /\ data' = [data EXCEPT ![c] = q]
    /\ isLoading' = [isLoading EXCEPT ![c] = FALSE]
    /\ UNCHANGED <<nextId, cardSym, hasError, refreshTimer, cardIntervals,
                   inDom, removeTimers>>

\* loadData after the awaits: !response.ok, success=false, or a thrown error;
\* all three reach the catch block, then finally.
loadFails_staysLoading(c, kind) ==
    /\ created(c) /\ fetching[c] > 0
    /\ kind \in FailKinds
    /\ fetching' = [fetching EXCEPT ![c] = @ - 1]
    /\ hasError' = [hasError EXCEPT ![c] = TRUE]
    /\ UNCHANGED <<nextId, cardSym, isLoading, data, previousData,
                   refreshTimer, cardIntervals, inDom, removeTimers>>
loadFails_stopsOthers(c, kind) ==
    /\ created(c) /\ fetching[c] > 0
    /\ kind \in FailKinds
    /\ fetching' = [fetching EXCEPT ![c] = @ - 1]
    /\ hasError' = [hasError EXCEPT ![c] = TRUE]
    /\ isLoading' = [isLoading EXCEPT ![c] = FALSE]
    /\ refreshTimer' = [d \in CardIds |-> FALSE]
    /\ cardIntervals' = [d \in CardIds |-> 0]
    /\ UNCHANGED <<nextId, cardSym, data, previousData, inDom, removeTimers>>
loadFails_dropsData(c, kind) ==
    /\ created(c) /\ fetching[c] > 0
    /\ kind \in FailKinds
    /\ fetching' = [fetching EXCEPT ![c] = @ - 1]
    /\ hasError' = [hasError EXCEPT ![c] = TRUE]
    /\ isLoading' = [isLoading EXCEPT ![c] = FALSE]
    /\ data' = [data EXCEPT ![c] = Null]
    /\ UNCHANGED <<nextId, cardSym, previousData, refreshTimer, cardIntervals,
                   inDom, removeTimers>>
loadFails(c, kind) ==
    /\ created(c) /\ fetching[c] > 0
    /\ kind \in FailKinds
    /\ fetching' = [fetching EXCEPT ![c] = @ - 1]
    /\ hasError' = [hasError EXCEPT ![c] = TRUE]
    /\ isLoading' = [isLoading EXCEPT ![c] = FALSE]
    /\ UNCHANGED <<nextId, cardSym, data, previousData, refreshTimer,
                   cardIntervals, inDom, removeTimers>>

\* clearInterval(handle) under `if (handle)`: n timers were running.
cleared(handle, n) == IF handle THEN n - 1 ELSE n

\* StockCard.stopAutoRefresh()
stopAutoRefresh(c) ==
    /\ cardIntervals' = [cardIntervals EXCEPT ![c] = cleared(refreshTimer[c], @)]
    /\ refreshTimer' = [refreshTimer EXCEPT ![c] = FALSE]

\* StockCard.startAutoRefresh(): stopAutoRefresh(), then setInterval.
startAutoRefresh_noStop(c) ==
    /\ cardIntervals' = [cardIntervals EXCEPT ![c] = @ + 1]
    /\ refreshTimer' = [refreshTimer EXCEPT ![c] = TRUE]
startAutoRefresh(c) ==
    /\ cardIntervals' = [cardIntervals EXCEPT ![c] = cleared(refreshTimer[c], @) + 1]
    /\ refreshTimer' = [refreshTimer EXCEPT ![c] = TRUE]

\* StockDashboard.stopGlobalUpdates()
stopGlobalUpdates ==
    /\ globalIntervals' = cleared(updateInterval, globalIntervals)
    /\ updateInterval' = FALSE

\* StockDashboard.startGlobalUpdates(): stopGlobalUpdates(), then setInterval.
startGlobalUpdates ==
    /\ globalIntervals' = cleared(updateInterval, globalIntervals) + 1
    /\ updateInterval' = TRUE

\* The card's buttons can be clicked while its element is on the page;
\* refreshAll() reaches every registered card.
reachable(c) == created(c) /\ (inDom[c] \/ stockCards[cardSym[c]] = c)

refresh(c) ==
    /\ reachable(c)
    /\ loadData(c)
    /\ UNCHANGED <<nextId, cardSym, data, previousData, refreshTimer,
                   cardIntervals, inDom, removeTimers>>

\* retry(): setError(false), then loadData(). The retry button sits in the
\* error overlay, shown while hasError.
retry(c) ==
    /\ created(c) /\ inDom[c] /\ hasError[c]
    /\ IF loadDataSkips(c)
       THEN /\ hasError' = [hasError EXCEPT ![c] = FALSE]
            /\ UNCHANGED <<isLoading, fetching>>
       ELSE loadData(c)
    /\ UNCHANGED <<nextId, cardSym, data, previousData, refreshTimer,
                   cardIntervals, inDom, removeTimers>>

\* The setInterval callback armed by startAutoRefresh.
autoRefreshTick_ignoresHidden(c) ==
    /\ created(c) /\ refreshTimer[c]
    /\ IF ~isLoading[c]
       THEN loadData(c)
       ELSE UNCHANGED <<isLoading, hasError, fetching>>
    /\ UNCHANGED <<nextId, cardSym, data, previousData, refreshTimer,
                   cardIntervals, inDom, removeTimers>>
autoRefreshTick(c) ==
    /\ created(c) /\ refreshTimer[c]
    /\ IF ~hidden /\ ~isLoading[c]
       THEN loadData(c)
       ELSE UNCHANGED <<isLoading, hasError, fetching>>
    /\ UNCHANGED <<nextId, cardSym, data, previousData, refreshTimer,
                   cardIntervals, inDom, removeTimers>>

\* remove(): stopAutoRefresh(), then the element and the stockCardRemoved
\* event follow 300 ms later.
remove_keepsTimer(c) ==
    /\ removeTimers[c] < MaxRemoveTimers
    /\ removeTimers' = [removeTimers EXCEPT ![c] = @ + 1]
    /\ UNCHANGED <<refreshTimer, cardIntervals>>
remove(c) ==
    /\ removeTimers[c] < MaxRemoveTimers
    /\ stopAutoRefresh(c)
    /\ removeTimers' = [removeTimers EXCEPT ![c] = @ + 1]

removeClick(c) ==
    /\ created(c) /\ inDom[c]
    /\ remove(c)
    /\ UNCHANGED <<nextId, cardSym, isLoading, hasError, fetching, data,
                   previousData, inDom>>

\* ----------------------------------------------------------- StockDashboard

\* handleCardRemoved(symbol)
handleCardRemoved_keepsWatchlist(s) ==
    /\ stockCards' = [stockCards EXCEPT ![s] = NoCard]
    /\ UNCHANGED watchlist
handleCardRemoved(s) ==
    /\ stockCards' = [stockCards EXCEPT ![s] = NoCard]
    /\ watchlist' = watchlist \ {s}

\* The 300 ms timeout of remove(): element.remove(), then the
\* stockCardRemoved event, handled synchronously by the dashboard.
removeTimeout(c) ==
    /\ created(c) /\ removeTimers[c] > 0
    /\ removeTimers' = [removeTimers EXCEPT ![c] = @ - 1]
    /\ inDom' = [inDom EXCEPT ![c] = FALSE]
    /\ handleCardRemoved(cardSym[c])
    /\ UNCHANGED <<nextId, cardSym, isLoading, hasError, fetching, data,
                   previousData, refreshTimer, cardIntervals>>

\* addStockCard(symbol): new StockCard(...) runs init(), i.e. loadData() and
\* startAutoRefresh(); the card is then registered.
addStockCard(s) ==
    /\ nextId <= MaxCardId
    /\ nextId' = nextId + 1
    /\ cardSym' = [cardSym EXCEPT ![nextId] = s]
    /\ inDom' = [inDom EXCEPT ![nextId] = TRUE]
    /\ isLoading' = [isLoading EXCEPT ![nextId] = TRUE]
    /\ hasError' = [hasError EXCEPT ![nextId] = FALSE]
    /\ fetching' = [fetching EXCEPT ![nextId] = 1]
    /\ startAutoRefresh(nextId)
    /\ stockCards' = [stockCards EXCEPT ![s] = nextId]
    /\ watchlist' = watchlist \cup {s}
    /\ UNCHANGED <<data, previousData, removeTimers>>

maxCards == 20

\* handleAddStock(): the input is the trimmed, upper-cased search box.
handleAddStock_noLimit(s) ==
    /\ s \in Symbols \cup {NoSym}
    /\ IF s = NoSym
       THEN UNCHANGED <<cardVars, stockCards, watchlist>>
       ELSE IF stockCards[s] # NoCard
       THEN UNCHANGED <<cardVars, stockCards, watchlist>>
       ELSE addStockCard(s)
    /\ UNCHANGED <<hidden, updateInterval, globalIntervals, options,
                   defaultRuns>>
handleAddStock(s) ==
    /\ s \in Symbols \cup {NoSym}
    /\ IF s = NoSym
       THEN UNCHANGED <<cardVars, stockCards, watchlist>>
       ELSE IF stockCards[s] # NoCard
       THEN UNCHANGED <<cardVars, stockCards, watchlist>>
       ELSE IF Cardinality({t \in Symbols : stockCards[t] # NoCard})
                  >= options.maxCards
       THEN UNCHANGED <<cardVars, stockCards, watchlist>>
       ELSE addStockCard(s)
    /\ UNCHANGED <<hidden, updateInterval, globalIntervals, options,
                   defaultRuns>>

\* The remove button of a watchlist item: stockCards.get(symbol)?.remove().
watchlistRemoveClick(s) ==
    /\ s \in watchlist
    /\ IF stockCards[s] # NoCard
       THEN remove(stockCards[s])
       ELSE UNCHANGED <<refreshTimer, cardIntervals, removeTimers>>
    /\ UNCHANGED <<nextId, cardSym, isLoading, hasError, fetching, data,
                   previousData, inDom, dashVars>>

\* clearWatchlist(), the user confirming the dialog.
clearWatchlist ==
    LET reg == {stockCards[s] : s \in {t \in Symbols : stockCards[t] # NoCard}} IN
    /\ reg # {}
    /\ \A c \in reg : removeTimers[c] < MaxRemoveTimers
    /\ refreshTimer' = [c \in CardIds |-> IF c \in reg THEN FALSE ELSE refreshTimer[c]]
    /\ cardIntervals' = [c \in CardIds |->
                            IF c \in reg THEN cleared(refreshTimer[c], cardIntervals[c])
                            ELSE cardIntervals[c]]
    /\ removeTimers' = [c \in CardIds |-> IF c \in reg THEN removeTimers[c] + 1
                                          ELSE removeTimers[c]]
    /\ stockCards' = [s \in Symbols |-> NoCard]
    /\ watchlist' = {}
    /\ UNCHANGED <<nextId, cardSym, isLoading, hasError, fetching, data,
                   previousData, inDom, hidden, updateInterval,
                   globalIntervals, options, defaultRuns>>

\* options.defaultSymbols, those of them the model has cards for.
defaultSymbols == <<"AAPL", "MSFT">>

\* this.stockCards.size
size == Cardinality({t \in Symbols : stockCards[t] # NoCard})

\* The for loop of addDefaultStocks from position p up to its next await:
\* the first symbol that passes the test of line 2692, or 0 when the loop
\* runs out without one.
nextDefault(p) ==
    LET pass == {i \in p..Len(defaultSymbols) :
                    stockCards[defaultSymbols[i]] = NoCard /\ size < options.maxCards}
    IN IF pass = {} THEN 0 ELSE CHOOSE i \in pass : \A j \in pass : i <= j

\* addDefaultStocks() running from position p: addStockCard of the next
\* symbol that passes, then the awaits (the 200 ms delay); `rest` are the
\* other calls in progress.
defaultLoop(p, rest) ==
    LET i == nextDefault(p) IN
    /\ IF i = 0
       THEN /\ defaultRuns' = rest
            /\ UNCHANGED <<cardVars, stockCards, watchlist>>
       ELSE /\ addStockCard(defaultSymbols[i])
            /\ defaultRuns' = Append(rest, i + 1)
    /\ UNCHANGED <<hidden, updateInterval, globalIntervals, options>>

\* Click on the add-default button.
addDefaultStocks ==
    /\ Len(defaultRuns) < MaxDefaultRuns
    /\ defaultLoop(1, defaultRuns)

\* The 200 ms delay of a suspended addDefaultStocks() call is over.
defaultResumes(k) ==
    /\ k \in 1..Len(defaultRuns)
    /\ defaultLoop(defaultRuns[k],
                   [j \in 1..(Len(defaultRuns) - 1) |->
                       IF j < k THEN defaultRuns[j] ELSE defaultRuns[j + 1]])

\* visibilitychange: document.hidden flips, then handleVisibilityChange().
handleVisibilityChange ==
    /\ hidden' = ~hidden
    /\ IF hidden' THEN stopGlobalUpdates ELSE startGlobalUpdates
    /\ UNCHANGED <<cardVars, stockCards, watchlist, options, defaultRuns>>

\* The empty object '{}' and the totals before any updateStats().
NoAlerts == [s \in {} |-> <<>>]
\* A percentage is the number num / den * 100 ("ratio", a division by zero
\* when den = 0), the number 0 ("zero"), or nothing shown yet ("none").
NoPercent == [kind |-> "none", num |-> 0, den |-> 0]
NoStats == [computed |-> FALSE, totalValue |-> 0, totalChange |-> 0,
            validCards |-> 0, changePercent |-> NoPercent]

\* ------------------------------------------------------------ specification
\* The dashboard after construction with options {maxCards: m}: no card yet,
\* global updates started.
InitCardsWith(m) ==
    /\ options = [maxCards |-> m]
    /\ defaultRuns = <<>>
    /\ nextId = 1
    /\ cardSym = [c \in CardIds |-> NoSym]
    /\ isLoading = [c \in CardIds |-> FALSE]
    /\ hasError = [c \in CardIds |-> FALSE]
    /\ fetching = [c \in CardIds |-> 0]
    /\ data = [c \in CardIds |-> Null]
    /\ previousData = [c \in CardIds |-> Null]
    /\ refreshTimer = [c \in CardIds |-> FALSE]
    /\ cardIntervals = [c \in CardIds |-> 0]
    /\ inDom = [c \in CardIds |-> FALSE]
    /\ removeTimers = [c \in CardIds |-> 0]
    /\ stockCards = [s \in Symbols |-> NoCard]
    /\ watchlist = {}
    /\ hidden = FALSE
    /\ updateInterval = TRUE
    /\ globalIntervals = 1

\* The dashboard constructed with the default options.
InitCards == InitCardsWith(maxCards)

InitPoll ==
    /\ due = [c \in CardIds |-> 0]
    /\ sinceFail = [c \in CardIds |-> 0]
    /\ failCount = [c \in CardIds |-> 0]

\* No alert stored, the alert list not rendered yet; the data source will
\* serve the prices f.
InitAlerts(f) ==
    /\ alerts = NoAlerts
    /\ listAlerts = NoAlerts
    /\ listButtons = {}
    /\ feed = f
    /\ seen = [s \in Symbols |-> <<>>]
    /\ fired = [s \in Symbols |-> <<>>]

InitStats ==
    /\ statCards = <<>>
    /\ stats = NoStats

InitIndex == indexRuns = <<>>

NoFeed == [s \in Symbols |-> <<>>]

InitApp == InitCards /\ InitPoll /\ InitAlerts(NoFeed) /\ InitStats /\ InitIndex

\* The helpers of Utils before their first use.
NoItems == [k \in {} |-> <<>>]
NoGet == [key |-> "", at |-> 0, read |-> <<>>, result |-> ""]
NoLimiter == [maxRequests |-> 0, timeWindow |-> 0, requests |-> <<>>,
              returned |-> "none"]
NoCalls == [t \in {} |-> 0]
NoInstant == [day |-> 0, minute |-> 0, offset |-> 0]
NoStatus ==
    [computed |-> FALSE, isOpen |-> FALSE, isTradingDay |-> FALSE,
     isHoliday |-> FALSE, isExtendedHours |-> FALSE, isPreMarket |-> FALSE,
     isAfterHours |-> FALSE, status |-> "", statusText |-> ""]

InitStore == store = NoItems /\ lastGet = NoGet /\ expiryArg = NoItems
\* CONFIG as written in config.js; no environment override touches SOUND.
InitConfig == soundEnabled = FALSE
\* Utils.throttle not called yet.
NoThrottle == [limit |-> 0, lastRan |-> <<>>, lastFunc |-> <<>>, ran |-> <<>>,
               firstCall |-> <<>>]
InitThrottle == throttled = NoThrottle
InitLimiter == limiter = NoLimiter /\ allowedAt = NoCalls
InitMarket == mkIn = NoInstant /\ mkOut = NoStatus
InitRequest ==
    /\ attempts = 0
    /\ promise = "none"
    /\ inflight = {}
    /\ retryTimers = <<>>
    /\ outcome = <<>>
    /\ waited = <<>>

InitUtils ==
    /\ now = 0 /\ InitStore /\ InitConfig /\ InitThrottle
    /\ InitLimiter /\ InitMarket /\ InitRequest

Init == InitApp /\ InitUtils

\* Cards and dashboard under every interleaving of user actions, timer
\* callbacks and fetch completions; timers may fire at any moment.
Next ==
    \/ \E s \in Symbols \cup {NoSym} : handleAddStock(s) /\ UNCHANGED offCard
    \/ \E c \in CardIds : refresh(c) /\ UNCHANGED <<dashVars, offCard>>
    \/ \E c \in CardIds : retry(c) /\ UNCHANGED <<dashVars, offCard>>
    \/ \E c \in CardIds : autoRefreshTick(c) /\ UNCHANGED <<dashVars, offCard>>
    \/ \E c \in CardIds, q \in CardQuotes :
          loadSucceeds(c, q) /\ UNCHANGED <<dashVars, offCard>>
    \/ \E c \in CardIds, k \in FailKinds :
          loadFails(c, k) /\ UNCHANGED <<dashVars, offCard>>
    \/ \E c \in CardIds : removeClick(c) /\ UNCHANGED <<dashVars, offCard>>
    \/ \E c \in CardIds :
          removeTimeout(c)
          /\ UNCHANGED <<hidden, updateInterval, globalIntervals, options,
                         defaultRuns, offCard>>
    \/ \E s \in Symbols : watchlistRemoveClick(s) /\ UNCHANGED offCard
    \/ clearWatchlist /\ UNCHANGED offCard
    \/ handleVisibilityChange /\ UNCHANGED offCard

Spec == Init /\ [][Next]_vars

\* C1: a StockCard never has more than one fetch outstanding, whatever the
\* interleaving of timer ticks, refresh()/retry() calls and completions.
OneFetchPerCard == \A c \in CardIds : fetching[c] <= 1

\* A load is pending on a card whose timer is armed and whose buttons can be
\* clicked: further ticks and clicks run into the pending load.
OneFetchPerCardWitness ==
    \E c \in CardIds : created(c) /\ fetching[c] = 1 /\ isLoading[c]
                        /\ refreshTimer[c] /\ inDom[c] /\ data[c] # Null

\* remove() has been called on the card.
removed(c) == created(c) /\ (removeTimers[c] > 0 \/ ~inDom[c])

\* C9: once a card is removed, the completion of a fetch still in flight
\* leaves the card's data and previousData as they were.
RemovedCardDiscardsResult ==
    [][\A c \in CardIds : removed(c) =>
          data'[c] = data[c] /\ previousData'[c] = previousData[c]]_vars

\* C20: isLoading is true exactly while a fetch started by loadData is
\* pending; success and every kind of failure return the card to not-loading.
LoadingWhilePending == \A c \in CardIds : isLoading[c] <=> fetching[c] > 0

\* A card back in not-loading after a failed load that followed a successful one.
LoadingWhilePendingWitness ==
    \E c \in CardIds :
        created(c) /\ ~isLoading[c] /\ fetching[c] = 0 /\ hasError[c]
        /\ data[c] # Null

\* C19: a failed load of one card changes nothing of any other card: their
\* data, flags, pending fetch and armed refresh timer stay as they were.
FailureIsolated ==
    [][\A c \in CardIds :
          (fetching'[c] < fetching[c] /\ hasError'[c])
          => \A d \in CardIds \ {c} :
                /\ data'[d] = data[d]
                /\ previousData'[d] = previousData[d]
                /\ hasError'[d] = hasError[d]
                /\ isLoading'[d] = isLoading[d]
                /\ fetching'[d] = fetching[d]
                /\ refreshTimer'[d] = refreshTimer[d]]_vars

\* One card in the error state while another, loaded, keeps polling.
FailureIsolatedWitness ==
    \E c \in CardIds, d \in CardIds :
        /\ c # d /\ created(c) /\ created(d)
        /\ hasError[c] /\ ~isLoading[c]
        /\ ~hasError[d] /\ refreshTimer[d] /\ data[d] # Null /\ isLoading[d]

\* A card is live while its refresh timer is armed and its element is on the page.
live(c) == created(c) /\ refreshTimer[c] /\ inDom[c]

\* C24: every live card is registered in stockCards under its symbol, under
\* every interleaving of clearWatchlist, card removal, the delayed
\* stockCardRemoved event and handleAddStock: re-adding a symbol shortly
\* after clearing or removing never leaves the new card unregistered.
LiveCardsRegistered ==
    \A c \in CardIds : live(c) => stockCards[cardSym[c]] = c

\* ------------------------------------------------------------ the registry
\* The dashboard constructed with any capacity the cards of the model can
\* fill, or the default one.
InitRegistry ==
    /\ \E m \in (1..MaxCardId) \cup {maxCards} : InitCardsWith(m)
    /\ InitPoll /\ InitAlerts(NoFeed) /\ InitStats /\ InitIndex /\ InitUtils

\* Adding, adding the defaults, removing and clearing, with the 300 ms
\* removal timeouts and the 200 ms delays in any order.
NextRegistry ==
    \/ \E s \in Symbols \cup {NoSym} : handleAddStock(s) /\ UNCHANGED offCard
    \/ addDefaultStocks /\ UNCHANGED offCard
    \/ \E k \in 1..MaxDefaultRuns : defaultResumes(k) /\ UNCHANGED offCard
    \/ \E c \in CardIds : removeClick(c) /\ UNCHANGED <<dashVars, offCard>>
    \/ \E c \in CardIds :
          removeTimeout(c)
          /\ UNCHANGED <<hidden, updateInterval, globalIntervals, options,
                         defaultRuns, offCard>>
    \/ \E s \in Symbols : watchlistRemoveClick(s) /\ UNCHANGED offCard
    \/ clearWatchlist /\ UNCHANGED offCard

SpecRegistry == InitRegistry /\ [][NextRegistry]_vars

\* C26: after any sequence of add-stock, add-default-stocks, card-removed
\* and clear-watchlist operations the watchlist equals the key set of
\* stockCards.
WatchlistIsKeySet == watchlist = {s \in Symbols : stockCards[s] # NoCard}

\* One symbol registered and listed after the other was added and its card
\* removed.
WatchlistIsKeySetWitness ==
    /\ Cardinality(watchlist) = 1
    /\ nextId > MaxCardId
    /\ \E c \in CardIds : ~inDom[c] /\ removeTimers[c] = 0

\* C27: stockCards never holds more than maxCards cards, and a request for
\* an empty symbol, a symbol already present, or at full capacity creates no
\* card and leaves stockCards and watchlist as they are: a card is created
\* only below capacity and for a symbol not yet present, and only a created
\* card enters stockCards or the watchlist.
WithinMaxCards ==
    /\ [](size <= options.maxCards)
    /\ [][(nextId' # nextId)
             => (/\ size < options.maxCards
                 /\ cardSym'[nextId] # NoSym
                 /\ stockCards[cardSym'[nextId]] = NoCard)]_vars
    /\ [][(\E s \in Symbols :
              \/ stockCards'[s] \notin {stockCards[s], NoCard}
              \/ s \in watchlist' \ watchlist)
             => (nextId' = nextId + 1)]_vars

\* The dashboard at full capacity with a symbol left that a request could
\* name and a card the model could still construct.
WithinMaxCardsWitness ==
    /\ size = options.maxCards
    /\ nextId <= MaxCardId
    /\ \E s \in Symbols : stockCards[s] = NoCard

\* StockCard.destroy(): stopAutoRefresh(), then the element leaves the page;
\* no event tells the dashboard.
destroy(c) ==
    /\ created(c)
    /\ stopAutoRefresh(c)
    /\ inDom' = [inDom EXCEPT ![c] = FALSE]
    /\ UNCHANGED <<nextId, cardSym, isLoading, hasError, fetching, data,
                   previousData, removeTimers>>

\* The cards and the dashboard, with destroy() called on any card at any time.
NextLife ==
    \/ Next
    \/ \E c \in CardIds : destroy(c) /\ UNCHANGED <<dashVars, offCard>>

SpecLife == Init /\ [][NextLife]_vars

\* C11: once remove() or destroy() has been called on a card its refresh
\* timer is disarmed, at once and for good, so no interval callback of the
\* card runs and issues a fetch afterwards.
TimerOffAfterRemove == \A c \in CardIds : removed(c) => ~refreshTimer[c]

\* A card that had loaded data, removed and waiting for its 300 ms timeout.
TimerOffAfterRemoveWitness ==
    \E c \in CardIds :
        removeTimers[c] > 0 /\ inDom[c] /\ ~refreshTimer[c] /\ data[c] # Null

\* --------------------------------------------------- polling against time
\* One tick of model time is 10 s; the card's interval is the dashboard's
\* refreshInterval (30 s), CONFIG.POLLING.AUTO_RESUME_DELAY is 30 s.
MsPerTick == 10 * 1000
refreshInterval == 30000
MAX_RETRIES == 3
AUTO_RESUME_DELAY == 30000
IntervalTicks == refreshInterval \div MsPerTick
ResumeTicks == AUTO_RESUME_DELAY \div MsPerTick

Min(a, b) == IF a < b THEN a ELSE b

\* The dashboard adds its first card; startAutoRefresh arms the interval.
PollAdd(s) ==
    /\ nextId = 1 /\ s \in Symbols
    /\ handleAddStock(s)
    /\ due' = [due EXCEPT ![nextId] = IntervalTicks]
    /\ UNCHANGED <<sinceFail, failCount, offPoll>>

\* Time passes by one tick; an interval callback that is due runs first.
PollAdvance ==
    /\ \A c \in CardIds : refreshTimer[c] => due[c] > 0
    /\ due' = [c \in CardIds |-> IF refreshTimer[c] THEN due[c] - 1 ELSE due[c]]
    /\ sinceFail' = [c \in CardIds |-> IF created(c)
                                        THEN Min(sinceFail[c] + 1, ResumeTicks)
                                        ELSE sinceFail[c]]
    /\ UNCHANGED <<cardVars, dashVars, failCount, offPoll>>

\* The interval callback of the card, every refreshInterval.
PollTick(c) ==
    /\ due[c] = 0
    /\ autoRefreshTick(c)
    /\ due' = [due EXCEPT ![c] = IntervalTicks]
    /\ UNCHANGED <<dashVars, sinceFail, failCount, offPoll>>

PollLoadSucceeds(c, q) ==
    /\ loadSucceeds(c, q)
    /\ failCount' = [failCount EXCEPT ![c] = 0]
    /\ UNCHANGED <<dashVars, due, sinceFail, offPoll>>

PollLoadFails(c, k) ==
    /\ loadFails(c, k)
    /\ failCount' = [failCount EXCEPT ![c] = Min(@ + 1, MAX_RETRIES)]
    /\ sinceFail' = [sinceFail EXCEPT ![c] = 0]
    /\ UNCHANGED <<dashVars, due, offPoll>>

PollVisibility == handleVisibilityChange /\ UNCHANGED offCard

\* One card driven by its timer alone: no refresh or retry click.
NextPoll ==
    \/ \E s \in Symbols : PollAdd(s)
    \/ PollAdvance
    \/ \E c \in CardIds : PollTick(c)
    \/ \E c \in CardIds, q \in CardQuotes : PollLoadSucceeds(c, q)
    \/ \E c \in CardIds, k \in FailKinds : PollLoadFails(c, k)
    \/ PollVisibility

SpecPoll == Init /\ [][NextPoll]_vars

\* C3: after MAX_RETRIES consecutive failed loads no fetch is issued for the
\* symbol until AUTO_RESUME_DELAY has elapsed.
PausedAfterMaxRetries ==
    [][\A c \in CardIds :
          (failCount[c] >= MAX_RETRIES /\ sinceFail[c] < ResumeTicks)
              => fetching'[c] <= fetching[c]]_vars

\* ------------------------------------------------------------ price alerts
DateNow == 1762200000   \* Date.now() at setAlert, here in seconds
MaxFired == 3           \* cap on the recorded firings of one alert
AlertPrices == {100}
AlertFeed == [s \in Symbols |-> IF s = "AAPL" THEN <<90, 95, 98, 101, 105>>
                                                ELSE <<50>>]

\* The object with key s set to v / with key s deleted.
withKey(obj, s, v) ==
    [t \in DOMAIN obj \cup {s} |-> IF t = s THEN v ELSE obj[t]]
withoutKey(obj, s) == [t \in DOMAIN obj \ {s} |-> obj[t]]

\* StockCard.setAlert(price)
setAlert(c, price) ==
    /\ alerts' = withKey(alerts, cardSym[c],
                         [price |-> price, created |-> DateNow, triggered |-> FALSE])
    /\ seen' = [seen EXCEPT ![cardSym[c]] = <<>>]
    /\ fired' = [fired EXCEPT ![cardSym[c]] = <<>>]

\* showAlertDialog(): reads this.data (a TypeError while it is null), then
\* prompts for the price and calls setAlert.
showAlertDialog(c, price) ==
    /\ created(c) /\ inDom[c]
    /\ IF data[c] = Null
       THEN UNCHANGED <<alerts, seen, fired>>
       ELSE setAlert(c, price)
    /\ UNCHANGED <<listAlerts, listButtons, feed>>

\* StockCard.checkAlerts, lines 398-399: the test that fires the alert.
alertFires(alert, currentPrice) ==
    \/ (alert.price >= alert.created /\ currentPrice >= alert.price)
    \/ (alert.price < alert.created /\ currentPrice <= alert.price)

\* StockCard.checkAlerts()
Card_checkAlerts(c) ==
    LET s == cardSym[c] IN
    /\ created(c)
    /\ IF /\ s \in DOMAIN alerts
          /\ ~alerts[s].triggered
          /\ data[c] # Null
          /\ alertFires(alerts[s], data[c][1])
       THEN /\ Len(fired[s]) < MaxFired
            /\ alerts' = withKey(alerts, s, [alerts[s] EXCEPT !.triggered = TRUE])
            /\ fired' = [fired EXCEPT ![s] = Append(@, data[c][1])]
       ELSE UNCHANGED <<alerts, fired>>
    /\ UNCHANGED <<listAlerts, listButtons, feed, seen>>

\* StockDashboard.checkAlerts(): renders the alerts that have not triggered,
\* each with a remove button whose handler closes over the parsed object.
Dash_checkAlerts ==
    /\ listAlerts' = alerts
    /\ listButtons' = {s \in DOMAIN alerts : ~alerts[s].triggered}

\* The setInterval callback armed by startGlobalUpdates.
globalUpdateTick ==
    /\ updateInterval
    /\ IF ~hidden
       THEN Dash_checkAlerts
       ELSE UNCHANGED <<listAlerts, listButtons>>
    /\ UNCHANGED <<alerts, feed, seen, fired>>

\* Click on a remove button of the rendered list: delete alerts[symbol] in
\* the captured object, store it, render again.
removeAlertClick(s) ==
    /\ s \in listButtons
    /\ alerts' = withoutKey(listAlerts, s)
    /\ listAlerts' = alerts'
    /\ listButtons' = {t \in DOMAIN alerts' : ~alerts'[t].triggered}
    /\ UNCHANGED <<feed, seen, fired>>

\* A successful load served from the feed of the card's symbol.
AlertLoad(c) ==
    LET s == cardSym[c] IN
    /\ created(c) /\ feed[s] # <<>>
    /\ loadSucceeds(c, <<Head(feed[s]), 100>>)
    /\ feed' = [feed EXCEPT ![s] = Tail(@)]
    /\ seen' = [seen EXCEPT ![s] = Append(@, Head(feed[s]))]
    /\ UNCHANGED <<alerts, listAlerts, listButtons, fired>>

offAlert == <<pollVars, statVars, indexVars, utilVars>>

NextAlert ==
    \/ \E s \in Symbols : handleAddStock(s) /\ UNCHANGED offCard
    \/ \E c \in CardIds : autoRefreshTick(c) /\ UNCHANGED <<dashVars, offCard>>
    \/ \E c \in CardIds : AlertLoad(c) /\ UNCHANGED <<dashVars, offAlert>>
    \/ \E c \in CardIds, p \in AlertPrices :
          showAlertDialog(c, p) /\ UNCHANGED <<cardVars, dashVars, offAlert>>
    \/ \E c \in CardIds :
          Card_checkAlerts(c) /\ UNCHANGED <<cardVars, dashVars, offAlert>>
    \/ globalUpdateTick /\ UNCHANGED <<cardVars, dashVars, offAlert>>
    \/ \E s \in Symbols :
          removeAlertClick(s) /\ UNCHANGED <<cardVars, dashVars, offAlert>>

InitAlert ==
    InitCards /\ InitPoll /\ InitAlerts(AlertFeed) /\ InitStats /\ InitIndex
    /\ InitUtils

SpecAlert == InitAlert /\ [][NextAlert]_vars

\* C4: an alert at 100 set before the loads 95, 98, 101, 105 has fired
\* exactly once when they are through, on the load of 101.
AboveAlertFiresOnceAt101 ==
    \A s \in Symbols :
        (s \in DOMAIN alerts /\ alerts[s].price = 100
            /\ seen[s] = <<95, 98, 101, 105>>)
        => fired[s] = <<101>>

\* C8: an alert fires at most once between two setAlert calls.
AlertFiresAtMostOnce == \A s \in Symbols : Len(fired[s]) <= 1

\* C14: every snapshot accepted by a successful load is followed, in the same
\* handler, by an evaluation of the symbol's non-triggered alert against the
\* new price: an alert whose test is met by the loaded price fires.
LoadEvaluatesAlert ==
    [][\A c \in CardIds :
          (/\ created(c)
           /\ Len(seen'[cardSym[c]]) > Len(seen[cardSym[c]])
           /\ cardSym[c] \in DOMAIN alerts
           /\ ~alerts[cardSym[c]].triggered
           /\ alertFires(alerts[cardSym[c]], data'[c][1]))
          => (/\ cardSym[c] \in DOMAIN alerts'
              /\ alerts'[cardSym[c]].triggered)]_vars

\* C25: removing one symbol's alert through the alert list changes only that
\* symbol's stored alert: the alerts of other symbols created or marked
\* triggered after the list was rendered are preserved.
RemoveAlertKeepsOthers ==
    [][\A s \in DOMAIN alerts :
          s \notin DOMAIN alerts'
          => \A t \in DOMAIN alerts \ {s} :
                t \in DOMAIN alerts' /\ alerts'[t] = alerts[t]]_vars

\* -------------------------------------------------------- portfolio totals
MaxStatCards == 3       \* registered cards when updateStats() runs
StatQuotes == {<<10, 9>>, <<20, 22>>, <<10, 0>>, <<0, 5>>, <<-5, 10>>}
StatData == StatQuotes \cup {Null}

\* updateStats, line 2737: data && regularMarketPrice && regularMarketPreviousClose
cardCounts(d) == d # Null /\ d[1] # 0 /\ d[2] # 0

\* updateStats, line 2741: price - previousClose
changeOf_swapped(d) == d[2] - d[1]
changeOf(d) == d[1] - d[2]

\* The forEach of updateStats over the cards' data, in Map order.
RECURSIVE sumStats(_, _)
sumStats(cards, acc) ==
    IF cards = <<>> THEN acc
    ELSE LET d == Head(cards) IN
         sumStats(Tail(cards),
                  IF cardCounts(d)
                  THEN [acc EXCEPT !.totalValue = @ + d[1],
                                   !.totalChange = @ + changeOf(d),
                                   !.validCards = @ + 1]
                  ELSE acc)

zeroPercent == [kind |-> "zero", num |-> 0, den |-> 0]
ratio(n, d) == [kind |-> "ratio", num |-> n, den |-> d]

\* updateStats, lines 2746-2747: the percentage is computed, and shown, only
\* if validCards > 0; the shown one stays otherwise.
percentOf(acc, shown) ==
    IF acc.validCards > 0
    THEN IF acc.totalValue > 0
         THEN ratio(acc.totalChange, acc.totalValue - acc.totalChange)
         ELSE zeroPercent
    ELSE shown

\* StockDashboard.updateStats()
updateStats ==
    /\ stats' = LET acc == sumStats(statCards, [NoStats EXCEPT !.computed = TRUE])
                IN [acc EXCEPT !.changePercent = percentOf(acc, stats.changePercent)]
    /\ UNCHANGED statCards

InitStatCards ==
    /\ statCards \in UNION {[1..n -> StatData] : n \in 0..MaxStatCards}
    /\ stats = NoStats

InitTotals ==
    InitCards /\ InitPoll /\ InitAlerts(NoFeed) /\ InitStatCards /\ InitIndex
    /\ InitUtils

NextTotals ==
    updateStats
    /\ UNCHANGED <<cardVars, dashVars, pollVars, alertVars, indexVars,
                   utilVars>>

SpecTotals == InitTotals /\ [][NextTotals]_vars

\* The cards that have a snapshot with a price and a previous close.
loadedCards == {i \in 1..Len(statCards) :
                  statCards[i] # Null /\ statCards[i][1] # 0 /\ statCards[i][2] # 0}

RECURSIVE priceUpTo(_)
priceUpTo(n) ==
    IF n = 0 THEN 0
    ELSE priceUpTo(n - 1) + (IF n \in loadedCards THEN statCards[n][1] ELSE 0)

RECURSIVE gainUpTo(_)
gainUpTo(n) ==
    IF n = 0 THEN 0
    ELSE gainUpTo(n - 1)
         + (IF n \in loadedCards THEN statCards[n][1] - statCards[n][2] ELSE 0)

\* Snapshots A {price 10, change +1} and B {price 20, change -2}, C unloaded.
portfolioABC ==
    /\ Len(statCards) = 3
    /\ {statCards[i] : i \in 1..3} = {<<10, 9>>, <<20, 22>>, Null}

\* C6: the totals of updateStats range over the cards with a loaded
\* snapshot only; a card without one adds nothing and is not counted, so A
\* (10, +1), B (20, -2) and an unloaded C give totalChange = -1.
TotalsExcludeUnloaded ==
    stats.computed =>
        /\ stats.validCards = Cardinality(loadedCards)
        /\ stats.totalValue = priceUpTo(Len(statCards))
        /\ stats.totalChange = gainUpTo(Len(statCards))
        /\ portfolioABC =>
              stats.totalChange = -1 /\ stats.totalValue = 30
              /\ stats.validCards = 2

TotalsExcludeUnloadedWitness == stats.computed /\ portfolioABC

\* C16: with loaded snapshots, changePercent is totalChange / (totalValue -
\* totalChange) * 100 whenever that denominator is non-zero, and 0 whenever
\* it is zero.
ChangePercentGuardsDenominator ==
    (stats.computed /\ loadedCards # {}) =>
        LET gain == gainUpTo(Len(statCards))
            den == priceUpTo(Len(statCards)) - gain
        IN IF den # 0
           THEN stats.changePercent = ratio(gain, den)
           ELSE stats.changePercent = zeroPercent

\* ------------------------------------------------- ticks and page visibility
IndexSymbols == <<"^GSPC", "^DJI", "^IXIC">>

\* updateMarketIndices() up to its first await: the fetch of the first index.
updateMarketIndices ==
    /\ Len(indexRuns) < MaxIndexRuns
    /\ indexRuns' = Append(indexRuns, Len(IndexSymbols))

\* A fetch of updateMarketIndices settles (answer or error, both go on with
\* the loop): the next index is fetched, or the call ends after the last.
indexFetchSettles(k) ==
    /\ k \in 1..Len(indexRuns)
    /\ indexRuns' =
          IF indexRuns[k] > 1
          THEN [indexRuns EXCEPT ![k] = @ - 1]
          ELSE [j \in 1..(Len(indexRuns) - 1) |->
                   IF j < k THEN indexRuns[j] ELSE indexRuns[j + 1]]

\* The setInterval callback armed by startGlobalUpdates, whole: when the page
\* is visible, updateMarketIndices(), updateStats(), checkAlerts().
globalUpdate ==
    /\ globalUpdateTick
    /\ IF ~hidden
       THEN updateMarketIndices /\ updateStats
       ELSE UNCHANGED <<indexRuns, statVars>>

offTick == <<pollVars, utilVars>>

\* Cards and dashboard driven by their timers, fetch completions and
\* visibility changes; the only fetch not started by a timer is the first
\* load of a card being added.
NextVisible ==
    \/ \E s \in Symbols : handleAddStock(s) /\ UNCHANGED offCard
    \/ \E c \in CardIds : autoRefreshTick(c) /\ UNCHANGED <<dashVars, offCard>>
    \/ globalUpdate /\ UNCHANGED <<cardVars, dashVars, offTick>>
    \/ \E c \in CardIds, q \in CardQuotes :
          loadSucceeds(c, q) /\ UNCHANGED <<dashVars, offCard>>
    \/ \E c \in CardIds, k \in FailKinds :
          loadFails(c, k) /\ UNCHANGED <<dashVars, offCard>>
    \/ \E k \in 1..MaxIndexRuns :
          indexFetchSettles(k)
          /\ UNCHANGED <<cardVars, dashVars, alertVars, statVars, offTick>>
    \/ handleVisibilityChange /\ UNCHANGED offCard

SpecVisible == Init /\ [][NextVisible]_vars

\* C12: while the page is hidden no timer tick starts a request: no card's
\* auto-refresh tick issues a fetch and the global update tick starts no
\* updateMarketIndices(), under every interleaving with visibility changes.
NoTickFetchWhileHidden ==
    [][(hidden /\ nextId' = nextId)
          => /\ \A c \in CardIds : fetching'[c] <= fetching[c]
             /\ Len(indexRuns') <= Len(indexRuns)]_vars

\* The page hidden with a loaded card idle and its interval armed, and no
\* index fetch left over.
NoTickFetchWhileHiddenWitness ==
    /\ hidden /\ ~updateInterval /\ indexRuns = <<>>
    /\ \E c \in CardIds :
          created(c) /\ refreshTimer[c] /\ ~isLoading[c] /\ data[c] # Null

cardData == <<nextId, cardSym, isLoading, hasError, fetching, data,
              previousData, inDom, removeTimers>>
dashData == <<stockCards, watchlist, hidden, options, defaultRuns>>

\* startAutoRefresh/stopAutoRefresh and startGlobalUpdates/stopGlobalUpdates
\* called in any order on the cards and the dashboard, between visibility
\* changes, interval callbacks, completions and removals.
NextTimers ==
    \/ \E s \in Symbols : handleAddStock(s) /\ UNCHANGED offCard
    \/ \E c \in CardIds :
          created(c) /\ startAutoRefresh(c) /\ UNCHANGED <<cardData, dashVars,
                                                           offCard>>
    \/ \E c \in CardIds :
          created(c) /\ stopAutoRefresh(c) /\ UNCHANGED <<cardData, dashVars,
                                                          offCard>>
    \/ startGlobalUpdates /\ UNCHANGED <<cardVars, dashData, offCard>>
    \/ stopGlobalUpdates /\ UNCHANGED <<cardVars, dashData, offCard>>
    \/ handleVisibilityChange /\ UNCHANGED offCard
    \/ \E c \in CardIds : autoRefreshTick(c) /\ UNCHANGED <<dashVars, offCard>>
    \/ \E c \in CardIds, k \in FailKinds :
          loadFails(c, k) /\ UNCHANGED <<dashVars, offCard>>
    \/ \E c \in CardIds : removeClick(c) /\ UNCHANGED <<dashVars, offCard>>

SpecTimers == Init /\ [][NextTimers]_vars

\* C28: each card has at most one armed auto-refresh timer and the dashboard
\* at most one armed global-update timer, after any sequence of starts,
\* stops and visibility changes.
AtMostOneTimer ==
    /\ \A c \in CardIds : cardIntervals[c] <= 1
    /\ globalIntervals <= 1

\* Timers started and stopped out of turn: a card on the page stopped
\* without being removed, another one armed, and the global timer armed
\* while the page is hidden.
AtMostOneTimerWitness ==
    /\ hidden /\ updateInterval /\ globalIntervals = 1
    /\ \E c \in CardIds, d \in CardIds :
          /\ created(c) /\ ~refreshTimer[c] /\ inDom[c] /\ removeTimers[c] = 0
          /\ created(d) /\ refreshTimer[d] /\ cardIntervals[d] = 1

\* ------------------------------------------------------ fetched snapshots
\* result.data as <<price, previous close, asOf, volume, changePercent>>;
\* asOf is its regularMarketTime.
PRICE_MIN == 0
PRICE_MAX == 999999
VOLUME_MIN == 0
CHANGE_PERCENT_MAX == 100

Snapshots ==
    {<<10, 9, 2, 500, 11>>,
     <<11, 9, 1, 500, 22>>,
     <<PRICE_MAX + 1, 9, 3, 500, 5>>,
     <<10, 9, 3, VOLUME_MIN - 1, 5>>,
     <<10, 5, 3, 500, -(CHANGE_PERCENT_MAX + 1)>>}

asOf(d) == d[3]

abs(x) == IF x < 0 THEN -x ELSE x

\* The range tests of Utils.validateStockData, lines 1200-1210.
validRanges(d) ==
    /\ ~(d[1] < PRICE_MIN \/ d[1] > PRICE_MAX)
    /\ ~(d[4] < VOLUME_MIN)
    /\ ~(abs(d[5]) > CHANGE_PERCENT_MAX)

\* Cards polling a source that may answer with any of the snapshots.
NextSnapshot ==
    \/ \E s \in Symbols : handleAddStock(s) /\ UNCHANGED offCard
    \/ \E c \in CardIds : autoRefreshTick(c) /\ UNCHANGED <<dashVars, offCard>>
    \/ \E c \in CardIds, q \in Snapshots :
          loadSucceeds(c, q) /\ UNCHANGED <<dashVars, offCard>>
    \/ \E c \in CardIds, k \in FailKinds :
          loadFails(c, k) /\ UNCHANGED <<dashVars, offCard>>

SpecSnapshot == Init /\ [][NextSnapshot]_vars

\* C13: the asOf of the snapshot a card holds never decreases: a fetched
\* snapshot older than the one held is rejected and the held one kept.
AsOfNeverDecreases ==
    [][\A c \in CardIds :
          (data[c] # Null /\ data'[c] # Null) => asOf(data'[c]) >= asOf(data[c])]_vars

\* C18: a snapshot outside the declared numeric ranges is never stored as the
\* card's data; a load that fetched one ends in the error state.
OnlyValidSnapshotsStored ==
    \A c \in CardIds : data[c] # Null => validRanges(data[c])

\* ------------------------------------------------------------------ clock
MaxNow == 3             \* ticks the clock of the Utils helpers runs for

clockTick ==
    /\ now < MaxNow
    /\ now' = now + 1

\* -------------------------------------------------- expiring local storage
MaxTtl == 1             \* largest time-to-live passed to setLocalStorage
Keys == {"k1", "k2"}
\* JavaScript values handed to setLocalStorage; JSON.stringify writes NaN as
\* null, so the item parsed back holds null.
Values == {"on", "NaN"}
Default == "default"
NoExpiry == <<>>
ExpiryArgs == {NoExpiry} \cup {<<n>> : n \in 0..MaxTtl}

\* JSON.parse(JSON.stringify(v))
jsonRoundTrip(v) == IF v = "NaN" THEN "null" ELSE v

\* JavaScript truthiness of an optional number: neither null nor 0.
truthy(e) == e # NoExpiry /\ e[1] # 0

\* setLocalStorage(key, value, expiry); setItem throws when the quota is
\* exceeded (~ok), and the function then returns false.
setLocalStorage(k, v, expiry, ok) ==
    /\ IF ok
       THEN store' = withKey(store, k,
                [value |-> jsonRoundTrip(v),
                 timestamp |-> now,
                 expiry |-> IF truthy(expiry) THEN <<now + expiry[1]>> ELSE NoExpiry])
       ELSE UNCHANGED store
    /\ UNCHANGED <<now, lastGet>>

\* getLocalStorage, line 1507: item.expiry && Date.now() > item.expiry
isExpired_atExpiry(item, t) == truthy(item.expiry) /\ t >= item.expiry[1]
isExpired(item, t) == truthy(item.expiry) /\ t > item.expiry[1]

\* getLocalStorage(key, defaultValue)
getLocalStorage(k) ==
    /\ IF k \notin DOMAIN store
       THEN /\ lastGet' = [key |-> k, at |-> now, read |-> <<>>, result |-> Default]
            /\ UNCHANGED store
       ELSE IF isExpired(store[k], now)
       THEN /\ store' = withoutKey(store, k)
            /\ lastGet' = [key |-> k, at |-> now, read |-> <<store[k]>>,
                           result |-> Default]
       ELSE /\ lastGet' = [key |-> k, at |-> now, read |-> <<store[k]>>,
                           result |-> store[k].value]
            /\ UNCHANGED store
    /\ UNCHANGED now

\* removeLocalStorage(key)
removeLocalStorage(k) ==
    /\ store' = withoutKey(store, k)
    /\ UNCHANGED <<now, lastGet>>

offStore ==
    <<appVars, putVars, limVars, mktVars, reqVars, cfgVars, thrVars>>

NextStorage ==
    \/ \E k \in Keys, v \in Values, e \in ExpiryArgs, ok \in BOOLEAN :
          setLocalStorage(k, v, e, ok) /\ UNCHANGED offStore
    \/ \E k \in Keys : getLocalStorage(k) /\ UNCHANGED offStore
    \/ \E k \in Keys : removeLocalStorage(k) /\ UNCHANGED offStore
    \/ clockTick /\ UNCHANGED <<storeVars, offStore>>

SpecStorage == Init /\ [][NextStorage]_vars

\* The item getLocalStorage read was stored with a positive time-to-live.
readWithTtl ==
    /\ lastGet.read # <<>>
    /\ lastGet.read[1].expiry # NoExpiry
    /\ lastGet.read[1].expiry[1] > lastGet.read[1].timestamp

\* C2: an entry stored with a positive time-to-live is returned by every
\* getLocalStorage at a time <= its expiry, and every call later than the
\* expiry returns the default.
ExpiryHonoured ==
    readWithTtl =>
        IF lastGet.at <= lastGet.read[1].expiry[1]
        THEN lastGet.result = lastGet.read[1].value
        ELSE lastGet.result = Default

\* A read past the expiry that returned the default, the entry gone.
ExpiryHonouredWitness ==
    /\ readWithTtl
    /\ lastGet.at > lastGet.read[1].expiry[1]
    /\ lastGet.result = Default
    /\ lastGet.key \notin DOMAIN store

\* ------------------------------------------------ time-to-live of a write
\* setLocalStorage(key, value, expiry) that stored its item, the argument
\* remembered for the key.
put(k, v, expiry) ==
    /\ setLocalStorage(k, v, expiry, TRUE)
    /\ expiryArg' = withKey(expiryArg, k, expiry)

offPut ==
    <<appVars, cfgVars, limVars, mktVars, reqVars, thrVars>>

NextPut ==
    \/ \E k \in Keys, v \in Values, e \in ExpiryArgs : put(k, v, e) /\ UNCHANGED offPut
    \/ \E k \in Keys : getLocalStorage(k) /\ UNCHANGED <<putVars, offPut>>
    \/ clockTick /\ UNCHANGED <<storeVars, putVars, offPut>>

SpecPut == Init /\ [][NextPut]_vars

\* C21: a setLocalStorage with time-to-live ttl >= 0 at time t stores an
\* entry whose expiry is exactly t + ttl, ttl = 0 included: an entry written
\* with ttl 0 is a miss at every later time.
ExpiryIsNowPlusTtl ==
    \A k \in DOMAIN store :
        expiryArg[k] # NoExpiry =>
            /\ store[k].expiry = <<store[k].timestamp + expiryArg[k][1]>>
            /\ (expiryArg[k][1] = 0 /\ now > store[k].timestamp)
                   => isExpired(store[k], now)

\* ---------------------------------------------------------- configuration
\* Object.freeze(CONFIG) freezes the properties of CONFIG itself; CONFIG.SOUND
\* is an object of its own, which freeze leaves writable.
SOUND_STORAGE_KEY == "dashboard-sound-settings"

\* The {enabled, volume} object toggleSound stores, by its enabled field.
soundSettings(enabled) == IF enabled THEN "enabled" ELSE "disabled"

\* Utils.toggleSound()
toggleSound(ok) ==
    /\ soundEnabled' = ~soundEnabled
    /\ setLocalStorage(SOUND_STORAGE_KEY, soundSettings(soundEnabled'), NoExpiry, ok)

offConfig ==
    <<appVars, putVars, limVars, mktVars, reqVars, thrVars>>

NextConfig ==
    \/ \E ok \in BOOLEAN : toggleSound(ok) /\ UNCHANGED offConfig
    \/ getLocalStorage(SOUND_STORAGE_KEY) /\ UNCHANGED <<cfgVars, offConfig>>
    \/ clockTick /\ UNCHANGED <<storeVars, cfgVars, offConfig>>

SpecConfig == Init /\ [][NextConfig]_vars

\* C22: once initialised the configuration is immutable: no operation, not
\* Utils.toggleSound either, changes a configuration value such as
\* SOUND.ENABLED.
ConfigImmutable == [][soundEnabled' = soundEnabled]_vars

\* ------------------------------------------------------- cache capacity
MAX_ENTRIES == 100

\* The cache key of the n-th symbol: CACHE.KEYS.STOCK_DATA + symbol.
cacheKey(n) == <<"stock-data-", n>>

entries == Cardinality(DOMAIN store)

\* setLocalStorage of a cache entry: one of the keys written so far, or the
\* next new one.
cacheWrite(n, ok) ==
    /\ n \in 1..(entries + 1)
    /\ setLocalStorage(cacheKey(n), "on", NoExpiry, ok)

\* removeLocalStorage of the entry written last.
cacheRemove ==
    /\ entries > 0
    /\ removeLocalStorage(cacheKey(entries))

NextCache ==
    \/ \E n \in 1..(MAX_ENTRIES + 1), ok \in BOOLEAN :
          cacheWrite(n, ok) /\ UNCHANGED offStore
    \/ cacheRemove /\ UNCHANGED offStore

SpecCache == Init /\ [][NextCache]_vars

\* C17: after any sequence of setLocalStorage writes the number of stored
\* entries never exceeds MAX_ENTRIES.
EntriesWithinLimit == entries <= MAX_ENTRIES

\* --------------------------------------------------------------- throttle
MaxThrottle == 3        \* largest limit given to Utils.throttle
MaxThrottleNow == 6     \* ticks the clock of the throttled function runs for

\* executedFunction, line 1298: if (!lastRan)
neverRan_always(lastRan) == TRUE
neverRan(lastRan) == ~truthy(lastRan)

\* func.apply(this, args); lastRan = Date.now()
invoke(t) == [t EXCEPT !.ran = Append(@, now), !.lastRan = <<now>>]

\* The delay handed to setTimeout, line 1309; a negative one counts as 0.
timeoutDelay(t) ==
    LET d == t.limit - (now - t.lastRan[1]) IN IF d < 0 THEN 0 ELSE d

\* One call of the function returned by throttle(func, limit).
executedFunction ==
    LET t == [throttled EXCEPT !.firstCall = IF @ = <<>> THEN <<now>> ELSE @] IN
    /\ throttled.limit > 0
    /\ throttled' = IF neverRan(t.lastRan)
                    THEN invoke(t)
                    ELSE [t EXCEPT !.lastFunc = <<now + timeoutDelay(t)>>]
    /\ UNCHANGED now

\* The callback of the pending setTimeout, run at or after its time.
throttleTimeout ==
    /\ throttled.lastFunc # <<>>
    /\ now >= throttled.lastFunc[1]
    /\ throttled' =
          LET t == [throttled EXCEPT !.lastFunc = <<>>] IN
          IF now - t.lastRan[1] >= t.limit THEN invoke(t) ELSE t
    /\ UNCHANGED now

throttleClock ==
    /\ now < MaxThrottleNow
    /\ now' = now + 1
    /\ UNCHANGED throttled

\* throttle(func, limit) just called; Date.now() counts from 1970 and is
\* positive.
InitThrottleIn ==
    /\ now = 1
    /\ \E l \in 1..MaxThrottle : throttled = [NoThrottle EXCEPT !.limit = l]

InitThrottled ==
    InitApp /\ InitThrottleIn /\ InitStore /\ InitConfig /\ InitLimiter
    /\ InitMarket /\ InitRequest

offThrottle == <<appVars, storeVars, putVars, cfgVars, limVars, mktVars, reqVars>>

NextThrottle ==
    \/ executedFunction /\ UNCHANGED offThrottle
    \/ throttleTimeout /\ UNCHANGED offThrottle
    \/ throttleClock /\ UNCHANGED offThrottle

SpecThrottle == InitThrottled /\ [][NextThrottle]_vars

\* C29: any two consecutive invocations of a function wrapped by
\* throttle(func, limit) are at least limit apart, for every sequence of
\* call times, and the first call invokes func immediately.
ThrottleSpacing ==
    /\ \A i \in 1..(Len(throttled.ran) - 1) :
          throttled.ran[i + 1] - throttled.ran[i] >= throttled.limit
    /\ throttled.firstCall # <<>> =>
          (throttled.ran # <<>> /\ throttled.ran[1] = throttled.firstCall[1])

\* func invoked by the first call and again by the timer of a later call,
\* exactly limit later.
ThrottleSpacingWitness ==
    /\ Len(throttled.ran) >= 2
    /\ throttled.ran[2] - throttled.ran[1] = throttled.limit
    /\ throttled.limit > 1

\* ----------------------------------------------------------- rate limiter
MaxLimit == 2           \* largest maxRequests given to createRateLimiter
MaxWindow == 3          \* largest timeWindow given to createRateLimiter

\* isAllowed, line 1326: requests[0] <= now - timeWindow
isOld_early(t, w, ts) == ts <= t - w + 1
isOld(t, w, ts) == ts <= t - w

\* The while loop of isAllowed: shift() the timestamps outside the window.
RECURSIVE dropOld(_, _, _)
dropOld(reqs, t, w) ==
    IF reqs # <<>> /\ isOld(t, w, Head(reqs))
    THEN dropOld(Tail(reqs), t, w)
    ELSE reqs

\* One call of the function returned by createRateLimiter.
isAllowed ==
    LET kept == dropOld(limiter.requests, now, limiter.timeWindow) IN
    /\ limiter.maxRequests > 0
    /\ IF Len(kept) < limiter.maxRequests
       THEN /\ limiter' = [limiter EXCEPT !.requests = Append(kept, now),
                                           !.returned = "true"]
            /\ allowedAt' = [allowedAt EXCEPT ![now] = @ + 1]
       ELSE /\ limiter' = [limiter EXCEPT !.requests = kept, !.returned = "false"]
            /\ UNCHANGED allowedAt
    /\ UNCHANGED now

\* createRateLimiter(maxRequests, timeWindow), not called yet.
InitLimiterIn ==
    /\ \E m \in 1..MaxLimit, w \in 1..MaxWindow :
          limiter = [maxRequests |-> m, timeWindow |-> w, requests |-> <<>>,
                     returned |-> "none"]
    /\ allowedAt = [t \in 0..MaxNow |-> 0]

InitRateLimit ==
    InitApp /\ now = 0 /\ InitStore /\ InitConfig /\ InitThrottle /\ InitLimiterIn
    /\ InitMarket /\ InitRequest

offLimiter ==
    <<appVars, storeVars, putVars, mktVars, reqVars, cfgVars, thrVars>>

NextRateLimit ==
    \/ isAllowed /\ UNCHANGED offLimiter
    \/ clockTick /\ UNCHANGED <<limVars, offLimiter>>

SpecRateLimit == InitRateLimit /\ [][NextRateLimit]_vars

\* Calls allowed at a time <= u.
RECURSIVE allowedUpTo(_)
allowedUpTo(u) == IF u < 0 THEN 0 ELSE allowedAt[u] + allowedUpTo(u - 1)

\* Calls allowed in the half-open interval (t - timeWindow, t].
allowedInWindow(t) == allowedUpTo(t) - allowedUpTo(t - limiter.timeWindow)

\* C10: no interval (t - timeWindow, t] holds more than maxRequests allowed
\* calls: a call that would exceed it returns false.
AtMostMaxPerWindow ==
    \A t \in 0..MaxNow : allowedInWindow(t) <= limiter.maxRequests

\* A call refused because the window ending now is full.
AtMostMaxPerWindowWitness ==
    /\ limiter.returned = "false"
    /\ allowedInWindow(now) = limiter.maxRequests
    /\ now > 0

\* ---------------------------------------------------------- market status
\* An instant is given by its wall clock in the market timezone: day counts
\* the calendar days from Wednesday 2025-12-24 and minute the minutes since
\* midnight. offset is the UTC offset, in minutes, of the timezone the
\* browser runs in (a Date prints and parses in that timezone).
MinutesPerDay == 24 * 60
Days == 0..4
Minutes == {0, 239, 240, 569, 570, 959, 960, 1199, 1200, 1439}
Offsets == {-300, 0, 60, 660}
FirstWeekday == 3

\* STOCK_CONFIG.MARKET, times as minutes since midnight ('HH:MM' strings
\* compare as their minutes do).
OPEN == 9 * 60 + 30
CLOSE == 16 * 60
TRADING_DAYS == 1..5
HOLIDAYS == {1}
PRE_MARKET_START == 4 * 60
PRE_MARKET_END == 9 * 60 + 30
AFTER_HOURS_START == 16 * 60
AFTER_HOURS_END == 20 * 60

\* marketTime.getDay()
getDay(i) == (FirstWeekday + i.day) % 7

\* marketTime.toISOString().slice(0, 10): marketTime holds the market wall
\* clock as a local time of the browser, and toISOString prints it in UTC.
toISODate(i) ==
    ((i.day + 1) * MinutesPerDay + i.minute - i.offset) \div MinutesPerDay - 1

\* Utils.getMarketStatus(date)
marketStatusOf(i) ==
    LET isTradingDay == getDay(i) \in TRADING_DAYS
        isHoliday == toISODate(i) \in HOLIDAYS
        isMarketHours == i.minute >= OPEN /\ i.minute < CLOSE
        isPreMarket == i.minute >= PRE_MARKET_START /\ i.minute < PRE_MARKET_END
        isAfterHours == i.minute >= AFTER_HOURS_START /\ i.minute < AFTER_HOURS_END
        isOpen == isTradingDay /\ ~isHoliday /\ isMarketHours
        isExtendedHours == isTradingDay /\ ~isHoliday /\ (isPreMarket \/ isAfterHours)
    IN [computed |-> TRUE,
        isOpen |-> isOpen,
        isTradingDay |-> isTradingDay,
        isHoliday |-> isHoliday,
        isExtendedHours |-> isExtendedHours,
        isPreMarket |-> isPreMarket,
        isAfterHours |-> isAfterHours,
        status |-> IF isOpen THEN "open"
                   ELSE IF isExtendedHours THEN "extended" ELSE "closed",
        statusText |-> IF isOpen THEN "Market Open"
                       ELSE IF isExtendedHours THEN "Extended Hours"
                       ELSE IF isHoliday THEN "Market Holiday"
                       ELSE IF ~isTradingDay THEN "Market Closed - Weekend"
                       ELSE "Market Closed"]

getMarketStatus ==
    /\ ~mkOut.computed
    /\ mkOut' = marketStatusOf(mkIn)
    /\ UNCHANGED mkIn

\* The date argument of getMarketStatus and the browser's timezone.
InitMarketIn ==
    /\ \E d \in Days, m \in Minutes, o \in Offsets :
          mkIn = [day |-> d, minute |-> m, offset |-> o]
    /\ mkOut = NoStatus

InitMarketStatus ==
    InitApp /\ now = 0 /\ InitStore /\ InitConfig /\ InitThrottle /\ InitLimiter
    /\ InitMarketIn /\ InitRequest

offMarket ==
    <<appVars, now, storeVars, putVars, limVars, reqVars, cfgVars, thrVars>>

NextMarket == getMarketStatus /\ UNCHANGED offMarket

SpecMarket == InitMarketStatus /\ [][NextMarket]_vars

\* The facts about the instant the status is meant to report.
onTradingDay == getDay(mkIn) \in TRADING_DAYS
onHoliday == mkIn.day \in HOLIDAYS
inMarketHours == mkIn.minute >= OPEN /\ mkIn.minute < CLOSE

\* C7: the market is reported open exactly inside the open/close window of a
\* trading day that is not a holiday; any time of a listed holiday reports
\* the holiday; any time of a non-trading weekday that is not a holiday
\* reports the weekend.
MarketStatusPrecedence ==
    mkOut.computed =>
        /\ mkOut.isOpen <=> (onTradingDay /\ ~onHoliday /\ inMarketHours)
        /\ onHoliday => mkOut.statusText = "Market Holiday"
        /\ (~onTradingDay /\ ~onHoliday) =>
               mkOut.statusText = "Market Closed - Weekend"

\* ------------------------------------------------------------ makeRequest
\* One Utils.makeRequest(url) call with default options. Requests are
\* numbered in the order attemptRequest sends them; outcome[n] is what
\* became of request n and waited[n] the delay, in units of RETRY_DELAY, of
\* the timer that sent it (0 for the first). Retry timers count down in
\* units of RETRY_DELAY.
RETRY_ATTEMPTS == 3
Failures == {"http", "network", "timeout"}

\* attemptRequest(): attempts++, createXHR, open, send.
attemptRequest(delay) ==
    /\ attempts' = attempts + 1
    /\ outcome' = Append(outcome, "pending")
    /\ inflight' = inflight \cup {Len(outcome) + 1}
    /\ waited' = Append(waited, delay)

\* new Promise(...): the executor calls attemptRequest() once.
makeRequest ==
    /\ promise = "none"
    /\ promise' = "pending"
    /\ attemptRequest(0)
    /\ UNCHANGED retryTimers

\* resolve() and reject() settle a pending promise and are ignored afterwards.
settle(p, to) == IF p = "pending" THEN to ELSE p

\* The failure branch shared by onreadystatechange, onerror and ontimeout,
\* run `calls` times in a row: below the limit each run sets a timer of
\* delay * attempts, at the limit each run rejects.
failureCallbacks(calls) ==
    IF attempts < RETRY_ATTEMPTS
    THEN /\ retryTimers' = retryTimers \o
                [k \in 1..calls |-> [left |-> attempts, delay |-> attempts]]
         /\ UNCHANGED promise
    ELSE /\ promise' = settle(promise, "rejected")
         /\ UNCHANGED retryTimers

received(n, what) ==
    /\ n \in inflight
    /\ inflight' = inflight \ {n}
    /\ outcome' = [outcome EXCEPT ![n] = what]
    /\ UNCHANGED <<attempts, waited>>

\* readyState 4 with a 2xx status.
xhrLoad(n) ==
    /\ received(n, "ok")
    /\ promise' = settle(promise, "resolved")
    /\ UNCHANGED retryTimers

\* readyState 4 with another HTTP status: onreadystatechange alone runs.
xhrHttpError(n) ==
    /\ received(n, "http")
    /\ failureCallbacks(1)

\* A network error: readyState 4 with status 0 runs onreadystatechange,
\* then the error event runs onerror.
xhrNetworkError(n) ==
    /\ received(n, "network")
    /\ failureCallbacks(2)

\* A timeout: readyState 4 with status 0 runs onreadystatechange, then the
\* timeout event runs ontimeout.
xhrTimeout(n) ==
    /\ received(n, "timeout")
    /\ failureCallbacks(2)

dueTimers == {k \in 1..Len(retryTimers) : retryTimers[k].left = 0}

withoutTimer(k) ==
    [j \in 1..(Len(retryTimers) - 1) |->
        IF j < k THEN retryTimers[j] ELSE retryTimers[j + 1]]

\* setTimeout(attemptRequest, delay * attempts) expires: the earliest set of
\* the due timers runs attemptRequest.
retryTimerFires ==
    /\ dueTimers # {}
    /\ LET k == CHOOSE d \in dueTimers : \A e \in dueTimers : d <= e IN
          /\ attemptRequest(retryTimers[k].delay)
          /\ retryTimers' = withoutTimer(k)
    /\ UNCHANGED promise

\* One RETRY_DELAY passes with no timer due.
retryDelayPasses ==
    /\ retryTimers # <<>>
    /\ dueTimers = {}
    /\ retryTimers' = [k \in 1..Len(retryTimers) |->
                          [retryTimers[k] EXCEPT !.left = @ - 1]]
    /\ UNCHANGED <<attempts, promise, inflight, outcome, waited>>

offRequest ==
    <<appVars, now, storeVars, putVars, limVars, mktVars, cfgVars, thrVars>>

\* A response never overtakes a timer that is already due.
NextRequest ==
    \/ makeRequest /\ UNCHANGED offRequest
    \/ \E n \in inflight : dueTimers = {} /\ xhrLoad(n) /\ UNCHANGED offRequest
    \/ \E n \in inflight : dueTimers = {} /\ xhrHttpError(n) /\ UNCHANGED offRequest
    \/ \E n \in inflight : dueTimers = {} /\ xhrNetworkError(n) /\ UNCHANGED offRequest
    \/ \E n \in inflight : dueTimers = {} /\ xhrTimeout(n) /\ UNCHANGED offRequest
    \/ retryTimerFires /\ UNCHANGED offRequest
    \/ retryDelayPasses /\ UNCHANGED offRequest

SpecRequest == Init /\ [][NextRequest]_vars

\* The source failed the first two requests and answered the third.
failedTwiceThenOk ==
    /\ Len(outcome) >= 3
    /\ outcome[1] \in Failures
    /\ outcome[2] \in Failures
    /\ outcome[3] = "ok"

\* C5: when the first two requests fail and the third succeeds, the promise
\* is resolved, exactly 3 requests were sent, the second after 1 x
\* RETRY_DELAY and the third after 2 x RETRY_DELAY.
ResolvesOnThirdAttempt ==
    failedTwiceThenOk =>
        /\ promise = "resolved"
        /\ Len(outcome) = 3
        /\ waited = <<0, 1, 2>>

\* Every request sent has failed and nothing is pending any more.
allFailed ==
    /\ promise # "none"
    /\ inflight = {}
    /\ retryTimers = <<>>
    /\ \A n \in 1..Len(outcome) : outcome[n] \in Failures

\* C15: whatever mix of HTTP errors, network errors and timeouts occurs, one
\* makeRequest call sends at most RETRY_ATTEMPTS requests, and the promise is
\* rejected once they are exhausted.
AttemptsWithinLimit ==
    /\ Len(outcome) <= RETRY_ATTEMPTS
    /\ allFailed => promise = "rejected"

====
